---- MODULE Spec2Model ----
(***************************************************************************)
(* Model of GithubClient::fetch_activity and GithubClient::fetch_all_nodes *)
(* (src/src/github/mod.rs): one summary request followed by three          *)
(* concurrently polled pagination loops whose results are merged into the  *)
(* summary data.                                                           *)
(*                                                                         *)
(* Steps are the segments of the async functions between two suspension    *)
(* points (the network round trips): everything the code does between      *)
(* receiving one reply and awaiting the next one is a single action.       *)
(***************************************************************************)
EXTENDS Integers, Sequences, FiniteSets, TLC

\* ------------------------------------------------------------------ bounds
\* A connection is empty or has 1..MaxPages pages, the last one of one node.
MaxPages == 2
\* Number of replies in one invocation in which the server leaves out the
\* nodes list or the endCursor of a page (specification SpecQuirks).
MaxQuirks == 1
\* Length of a --period string at most.
MaxArgLen == 3
\* The points in time of --from, --to and Utc::now() are the days 0..MaxDay.
MaxDay == 2
\* Number of entries of commit_contributions_by_repository at most.
MaxRepos == 2

\* --------------------------------------------------------------- constants
\* `let first = 10;`
first == 10
\* totalCommitContributions of the summary reply of test_fetch_activity_merge_data
SummaryCommits == 5
\* totalCommitContributions of the pagination replies (build_full_response)
PageCommits == 0

Kinds == {"issues", "prs", "pr_reviews"}
Calls == {"base"} \cup Kinds

\* Option<T>
None == [some |-> FALSE]
Some(x) == [some |-> TRUE, val |-> x]
\* Result<T>
Ok(x) == [ok |-> TRUE, val |-> x]
Err(msgs) == [ok |-> FALSE, err |-> msgs]

Min(a, b) == IF a < b THEN a ELSE b
Max(a, b) == IF a < b THEN b ELSE a

VARIABLES
    srv_total,      \* server: number of nodes of each connection
    srv_quirks,     \* server: quirky replies it may still serve
    pc,             \* position of fetch_activity
    base_inflight,  \* variables of the summary request in flight
    base_data,      \* fetch_activity's base_data
    dpc,            \* position of each fetch_all_nodes future
    cursor,         \* fetch_all_nodes' cursor, per connection
    all_nodes,      \* fetch_all_nodes' all_nodes, per connection
    inflight,       \* variables of the pagination request in flight
    dres,           \* value each fetch_*_nodes future resolved to
    ret,            \* value fetch_activity returned
    sent,           \* history: number of requests issued by each call
    last_reply,     \* history: shape of the last reply each call received
    delivered,      \* history: the pages each drain accepted, in order
    summary,        \* history: the data of the accepted summary reply
    cli,            \* the command line, the Args parsed from it, the date range
    flt,            \* one call of filter_activity: arguments and result
    previous        \* history: what the invocation before this one received
                    \* and returned; absent in the first

vars == <<srv_total, srv_quirks, pc, base_inflight, base_data, dpc, cursor,
          all_nodes, inflight, dres, ret, sent, last_reply, delivered, summary,
          cli, flt, previous>>

\* Variant of base_variables: the summary request asks for pages of its own,
\* larger size.
base_variablesLarger ==
    [username |-> "username", from |-> "start_date", to |-> "end_date",
     issues_first |-> first * 10, issues_after |-> None,
     prs_first |-> first * 10, prs_after |-> None,
     pr_reviews_first |-> first * 10, pr_reviews_after |-> None]

\* ------------------------------------------------------------ the requests
\* user_activity::Variables built by fetch_activity for the summary request.
base_variables ==
    [username |-> "username", from |-> "start_date", to |-> "end_date",
     issues_first |-> first, issues_after |-> None,
     prs_first |-> first, prs_after |-> None,
     pr_reviews_first |-> first, pr_reviews_after |-> None]

\* Variant of build_vars: the cursor is passed for all three connections.
build_varsAllCursors(k, fst, c) ==
    [username |-> "username", from |-> "start_date", to |-> "end_date",
     issues_first |-> fst, issues_after |-> c,
     prs_first |-> fst, prs_after |-> c,
     pr_reviews_first |-> fst, pr_reviews_after |-> c]

\* The build_vars closures of fetch_issue_nodes, fetch_pr_nodes and
\* fetch_pr_review_nodes.
build_vars(k, fst, c) ==
    [username |-> "username", from |-> "start_date", to |-> "end_date",
     issues_first |-> fst,
     issues_after |-> IF k = "issues" THEN c ELSE None,
     prs_first |-> fst,
     prs_after |-> IF k = "prs" THEN c ELSE None,
     pr_reviews_first |-> fst,
     pr_reviews_after |-> IF k = "pr_reviews" THEN c ELSE None]

\* The (first, after) pair of connection k in a Variables value.
FirstOf(k, v) ==
    CASE k = "issues" -> v.issues_first
      [] k = "prs" -> v.prs_first
      [] k = "pr_reviews" -> v.pr_reviews_first
AfterOf(k, v) ==
    CASE k = "issues" -> v.issues_after
      [] k = "prs" -> v.prs_after
      [] k = "pr_reviews" -> v.pr_reviews_after

\* -------------------------------------------------------------- the server
\* Node i of connection k, and the cursor that points behind node n.
Node(k, i) == <<k, i>>
CursorAt(k, n) == <<k, n>>

\* Number of pages of connection k for page size first.
PageCount(k) == Max(1, (srv_total[k] + first - 1) \div first)

\* The connection k as the server renders it for one (first, after) pair:
\* the nodes behind the cursor, at most fst of them.  noNodes and noCursor
\* are the two quirks: nodes is null, endCursor is null.
Conn(k, fst, after, noNodes, noCursor) ==
    LET off == IF after.some THEN after.val[2] ELSE 0
        n == Max(0, Min(fst, srv_total[k] - off))
    IN [total_count |-> srv_total[k],
        page_info |-> [end_cursor |-> IF n = 0 \/ noCursor THEN None
                                      ELSE Some(CursorAt(k, off + n)),
                       has_next_page |-> off + n < srv_total[k]],
        nodes |-> IF noNodes THEN None
                  ELSE Some([i \in 1..n |-> Node(k, off + i)])]

\* user_activity::ResponseData with a user, for the variables v; commits is
\* the value of the scalar fields, quirk the connection and quirks applied.
UserData(v, commits, qk, noNodes, noCursor) ==
    [user |-> Some([contributions_collection |->
        [total_commit_contributions |-> commits,
         total_issue_contributions |-> commits,
         total_pull_request_contributions |-> commits,
         total_pull_request_review_contributions |-> commits,
         contribution_calendar |-> [total_contributions |-> commits,
                                    weeks |-> <<>>],
         commit_contributions_by_repository |-> <<>>,
         issue_contributions |->
            Conn("issues", v.issues_first, v.issues_after,
                 noNodes /\ qk = "issues", noCursor /\ qk = "issues"),
         pull_request_contributions |->
            Conn("prs", v.prs_first, v.prs_after,
                 noNodes /\ qk = "prs", noCursor /\ qk = "prs"),
         pull_request_review_contributions |->
            Conn("pr_reviews", v.pr_reviews_first, v.pr_reviews_after,
                 noNodes /\ qk = "pr_reviews", noCursor /\ qk = "pr_reviews")]])]

\* graphql_client::Response<ResponseData>, or the failure of the round trip.
TransportFailure == [kind |-> "transport"]
DecodeFailure == [kind |-> "decode"]
Body(errors, data) == [kind |-> "body", errors |-> errors, data |-> data]

\* What the code reads of a reply (recorded in last_reply): the failure of
\* the round trip, else the form of the errors list and, when there is
\* none, the form of data.
Shape(r) ==
    IF r.kind # "body" THEN [kind |-> r.kind]
    ELSE IF r.errors.some
    THEN [kind |-> "body",
          errors |-> IF r.errors.val = <<>> THEN "empty" ELSE "nonempty"]
    ELSE [kind |-> "body", errors |-> "null",
          data |-> IF ~r.data.some THEN "null"
                   ELSE IF ~r.data.val.user.some THEN "user_null" ELSE "user"]

ErrorLists == {None, Some(<<>>), Some(<<"message">>)}

\* What the server can answer to a request with variables v of the given
\* call: the round trip fails, or a body with any errors list and with null
\* data, a null user or the user's data.  The scalar fields of a pagination
\* reply need not be those of the summary reply.
PlainData(call, v) ==
    {None, Some([user |-> None])}
    \cup {Some(UserData(v, c, call, FALSE, FALSE)) :
            c \in IF call = "base" THEN {SummaryCommits}
                  ELSE {PageCommits, SummaryCommits}}

\* The quirky renderings of the page a pagination request asks for, offered
\* while the server's budget lasts.
QuirkyData(call, v) ==
    IF call = "base" \/ srv_quirks = 0 THEN {}
    ELSE {Some(UserData(v, PageCommits, call, q[1], q[2])) :
             q \in BOOLEAN \X BOOLEAN}
         \ {Some(UserData(v, PageCommits, call, FALSE, FALSE))}

Replies(call, v) ==
    {[reply |-> TransportFailure, quirky |-> FALSE],
     [reply |-> DecodeFailure, quirky |-> FALSE]}
    \cup {[reply |-> Body(e, d), quirky |-> FALSE] :
            e \in ErrorLists, d \in PlainData(call, v)}
    \cup {[reply |-> Body(None, d), quirky |-> TRUE] : d \in QuirkyData(call, v)}

\* ---------------------------------------------------------- the client code
\* An anyhow error is its chain of messages, outermost first; a message is
\* its text and the values formatted into it.
Msg(text) == [text |-> text, args |-> <<>>]
\* bail!("...: {:?}", errors)
Bail(text, errors) == Err(<<[text |-> text, args |-> errors]>>)
\* anyhow's .context(text) on a Result.
Context(text, res) == IF res.ok THEN res ELSE Err(<<Msg(text)>> \o res.err)
\* The reqwest::Error of a failed send() or json().
ReqwestError(what) == Err(<<Msg(what)>>)

\* Variant of HasErrors: the errors are logged and the reply is processed.
HasErrorsIgnored(errors) == FALSE

\* `if let Some(errors) = response_body.errors`
HasErrors(errors) == errors.some

\* Variant of DataOrErr: null data is reported like an errors list.
DataOrErrAsProtocol(data, text) ==
    IF data.some THEN Ok(data.val) ELSE Bail("GraphQL pagination errors", <<>>)

\* Variant of DataOrErr: response_body.data.unwrap_or_default()
DataOrDefault(data, text) ==
    IF data.some THEN Ok(data.val) ELSE Ok([user |-> None])

\* response_body.data.ok_or_else(|| anyhow::anyhow!(text))
DataOrErr(data, text) ==
    IF data.some THEN Ok(data.val) ELSE Err(<<Msg(text)>>)

\* Variant of BaseOutcome: the context of send() is repeated on json().
BaseOutcomeOneContext(r) ==
    IF r.kind = "transport"
    THEN Context("Failed to send base request", ReqwestError("send"))
    ELSE IF r.kind = "decode"
    THEN Context("Failed to send base request", ReqwestError("decode"))
    ELSE IF HasErrors(r.errors)
    THEN Bail("GraphQL errors in base request", r.errors.val)
    ELSE DataOrErr(r.data, "No data received in base response")

\* Variant of BaseOutcome: a summary reply whose user is null is an error.
BaseOutcomeNeedsUser(r) ==
    IF r.kind = "transport"
    THEN Context("Failed to send base request", ReqwestError("send"))
    ELSE IF r.kind = "decode"
    THEN Context("Failed to parse base response", ReqwestError("decode"))
    ELSE IF HasErrors(r.errors)
    THEN Bail("GraphQL errors in base request", r.errors.val)
    ELSE IF r.data.some /\ ~r.data.val.user.some
    THEN Err(<<Msg("No user in base response")>>)
    ELSE DataOrErr(r.data, "No data received in base response")

\* fetch_activity, from the send of the summary request to base_data: the
\* Result that the `?`s and the bail! leave.
BaseOutcome(r) ==
    IF r.kind = "transport"
    THEN Context("Failed to send base request", ReqwestError("send"))
    ELSE IF r.kind = "decode"
    THEN Context("Failed to parse base response", ReqwestError("decode"))
    ELSE IF HasErrors(r.errors)
    THEN Bail("GraphQL errors in base request", r.errors.val)
    ELSE DataOrErr(r.data, "No data received in base response")

\* Variant of extract: every closure returns the page_info of the issue
\* connection.
extractIssuePageInfo(k, data) ==
    LET cc == data.user.val.contributions_collection
        conn == CASE k = "issues" -> cc.issue_contributions
                  [] k = "prs" -> cc.pull_request_contributions
                  [] k = "pr_reviews" -> cc.pull_request_review_contributions
    IN [nodes |-> conn.nodes, page_info |-> cc.issue_contributions.page_info]

\* The extract closures: the connection of kind k in a ResponseData whose
\* user is present (data.user.as_ref().unwrap()).
extract(k, data) ==
    LET cc == data.user.val.contributions_collection
        conn == CASE k = "issues" -> cc.issue_contributions
                  [] k = "prs" -> cc.pull_request_contributions
                  [] k = "pr_reviews" -> cc.pull_request_review_contributions
    IN [nodes |-> conn.nodes, page_info |-> conn.page_info]

\* The extract_page_info closures.
extract_page_info(page_info) ==
    [end_cursor |-> page_info.end_cursor,
     has_next_page |-> page_info.has_next_page]

\* Variant of Extend: all_nodes = nodes.clone()
ExtendOverwrite(all, nodes_opt) ==
    IF nodes_opt.some THEN nodes_opt.val ELSE all

\* Variant of Extend: the three drains push into one vector they share.
ExtendShared(all, nodes_opt) ==
    IF nodes_opt.some
    THEN all_nodes["issues"] \o all_nodes["prs"] \o all_nodes["pr_reviews"]
         \o nodes_opt.val
    ELSE all

\* Variant of Extend: all_nodes = nodes.clone().unwrap_or_default() on an
\* absent nodes field.
ExtendAbsentClears(all, nodes_opt) ==
    IF nodes_opt.some THEN all \o nodes_opt.val ELSE <<>>

\* Variant of Extend: the nodes of a page are put in front of the vector.
ExtendPrepend(all, nodes_opt) ==
    IF nodes_opt.some THEN nodes_opt.val \o all ELSE all

\* all_nodes.extend(nodes.clone()), or nothing for an absent nodes field.
Extend(all, nodes_opt) ==
    IF nodes_opt.some THEN all \o nodes_opt.val ELSE all

\* Variant of ShouldContinue: the loop always breaks after the page.
ShouldContinueNever(pi) == FALSE

\* Variant of ShouldContinue: `if end_cursor.is_some()`
ShouldContinueByCursor(pi) == pi.end_cursor.some

\* `if has_next_page { cursor = end_cursor } else { break }`
ShouldContinue(pi) == pi.has_next_page

\* One turn of the loop of fetch_all_nodes for the reply r, with the
\* accumulator all: the drain fails, panics in extract, breaks or goes on.
PageStep(k, all, r) ==
    IF r.kind = "transport"
    THEN [tag |-> "err",
          res |-> Context("Failed to send pagination request",
                          ReqwestError("send"))]
    ELSE IF r.kind = "decode"
    THEN [tag |-> "err",
          res |-> Context("Failed to parse pagination response",
                          ReqwestError("decode"))]
    ELSE IF HasErrors(r.errors)
    THEN [tag |-> "err",
          res |-> Bail("GraphQL pagination errors", r.errors.val)]
    ELSE LET data == DataOrErr(r.data,
                               "No data received in pagination response")
         IN IF ~data.ok
            THEN [tag |-> "err", res |-> data]
            ELSE IF ~data.val.user.some
            THEN [tag |-> "panic"]
            ELSE LET page == extract(k, data.val)
                     pi == extract_page_info(page.page_info)
                     acc == Extend(all, page.nodes)
                 IN IF ShouldContinue(pi)
                    THEN [tag |-> "next", all |-> acc,
                          cursor |-> pi.end_cursor, page |-> page]
                    ELSE [tag |-> "break", res |-> Ok(acc), page |-> page]

\* Variant of DrainContext: one context for the three futures.
DrainContextGeneric(k) == "Failed to fetch nodes"

\* The context each drain's error gets after the join!.
DrainContext(k) ==
    CASE k = "issues" -> "Failed to fetch issue nodes"
      [] k = "prs" -> "Failed to fetch PR nodes"
      [] k = "pr_reviews" -> "Failed to fetch PR review nodes"

\* Variant of JoinResult: pr_reviews.unwrap_or_default()
JoinResultLenient(res) ==
    IF ~res["issues"].ok
    THEN Context("Failed to fetch issue nodes", res["issues"])
    ELSE IF ~res["prs"].ok
    THEN Context("Failed to fetch PR nodes", res["prs"])
    ELSE Ok([k \in Kinds |-> IF res[k].ok THEN res[k].val ELSE <<>>])

\* Variant of JoinResult: the three results are inspected in the order
\* pr_reviews, prs, issues.
JoinResultReviewsFirst(res) ==
    IF ~res["pr_reviews"].ok
    THEN Context(DrainContext("pr_reviews"), res["pr_reviews"])
    ELSE IF ~res["prs"].ok
    THEN Context(DrainContext("prs"), res["prs"])
    ELSE IF ~res["issues"].ok
    THEN Context(DrainContext("issues"), res["issues"])
    ELSE Ok([k \in Kinds |-> res[k].val])

\* The three `?` after the join!: the first error in the order issues, prs,
\* pr_reviews, or the three node lists.
JoinResult(res) ==
    IF ~res["issues"].ok
    THEN Context(DrainContext("issues"), res["issues"])
    ELSE IF ~res["prs"].ok
    THEN Context(DrainContext("prs"), res["prs"])
    ELSE IF ~res["pr_reviews"].ok
    THEN Context(DrainContext("pr_reviews"), res["pr_reviews"])
    ELSE Ok([k \in Kinds |-> res[k].val])

\* Variant of Merge: the drained nodes are appended to the summary's nodes.
MergeAppend(base, issues, prs, pr_reviews) ==
    IF base.user.some
    THEN [base EXCEPT
            !.user.val.contributions_collection.issue_contributions.nodes
                = Some((IF @.some THEN @.val ELSE <<>>) \o issues),
            !.user.val.contributions_collection.pull_request_contributions.nodes
                = Some((IF @.some THEN @.val ELSE <<>>) \o prs),
            !.user.val.contributions_collection
                .pull_request_review_contributions.nodes
                = Some((IF @.some THEN @.val ELSE <<>>) \o pr_reviews)]
    ELSE base

\* Variant of Merge: the result is rebuilt from the drained lists over
\* Default::default(), which loses the counters and the calendar.
MergeRebuild(base, issues, prs, pr_reviews) ==
    IF base.user.some
    THEN [base EXCEPT
            !.user.val.contributions_collection.total_commit_contributions = 0,
            !.user.val.contributions_collection.contribution_calendar
                = [total_contributions |-> 0, weeks |-> <<>>],
            !.user.val.contributions_collection.issue_contributions.nodes
                = Some(issues),
            !.user.val.contributions_collection.pull_request_contributions.nodes
                = Some(prs),
            !.user.val.contributions_collection
                .pull_request_review_contributions.nodes = Some(pr_reviews)]
    ELSE base

\* `if let Some(ref mut user) = base_data.user { ...nodes = Some(...) }`
Merge(base, issues, prs, pr_reviews) ==
    IF base.user.some
    THEN [base EXCEPT
            !.user.val.contributions_collection.issue_contributions.nodes
                = Some(issues),
            !.user.val.contributions_collection.pull_request_contributions.nodes
                = Some(prs),
            !.user.val.contributions_collection
                .pull_request_review_contributions.nodes = Some(pr_reviews)]
    ELSE base

\* ------------------------------------------------------------- the actions
Totals == {0} \cup {(p - 1) * first + 1 : p \in 1..MaxPages}

\* The variables of fetch_activity and of the server.
fetch_vars == <<srv_total, srv_quirks, pc, base_inflight, base_data, dpc,
                cursor, all_nodes, inflight, dres, ret, sent, last_reply,
                delivered, summary>>

\* fetch_activity and the server when fetch_activity is called, the server
\* having q quirky replies to serve.
FetchState(q) ==
    /\ srv_total \in [Kinds -> Totals]
    /\ srv_quirks = q
    /\ pc = "start"
    /\ base_inflight = None
    /\ base_data = None
    /\ dpc = [k \in Kinds |-> "idle"]
    /\ cursor = [k \in Kinds |-> None]
    /\ all_nodes = [k \in Kinds |-> <<>>]
    /\ inflight = [k \in Kinds |-> None]
    /\ dres = [k \in Kinds |-> None]
    /\ ret = None
    /\ sent = [c \in Calls |-> 0]
    /\ last_reply = [c \in Calls |-> None]
    /\ delivered = [k \in Kinds |-> <<>>]
    /\ summary = None

\* The state when fetch_activity is called; the argument layer and the
\* filter are not looked at.
InitWith(q) ==
    /\ FetchState(q)
    /\ cli = [pc |-> "idle"]
    /\ flt = [pc |-> "idle"]
    /\ previous = None

\* The server renders every page in full.
Init == InitWith(0)
\* The server may leave out the nodes or the endCursor of some pages; one
\* connection at most is not empty.
InitQuirks ==
    /\ InitWith(MaxQuirks)
    /\ Cardinality({k \in Kinds : srv_total[k] # 0}) <= 1

\* Variant of JoinReached: the three futures are polled along with the
\* summary request.
JoinReachedEarly(p) == p \in {"base_wait", "join"}

\* The join! is reached once base_data has been obtained; position p of
\* fetch_activity is the one where the three futures are first polled.
JoinReached(p) == p = "join"

\* Variant of Enter: all_nodes is a field of the client that is never
\* cleared, so a drain starts with the list the invocation before returned.
EnterKeepsAccumulator(p) ==
    /\ pc' = p
    /\ IF JoinReached(p)
       THEN /\ dpc' = [k \in Kinds |-> "wait"]
            /\ cursor' = [k \in Kinds |-> None]
            /\ all_nodes' =
                 [k \in Kinds |->
                    IF previous.some /\ previous.val.ret.ok
                       /\ previous.val.ret.val.user.some
                    THEN LET cc == previous.val.ret.val.user.val
                                       .contributions_collection
                         IN CASE k = "issues" ->
                                    cc.issue_contributions.nodes.val
                              [] k = "prs" ->
                                    cc.pull_request_contributions.nodes.val
                              [] k = "pr_reviews" ->
                                    cc.pull_request_review_contributions
                                      .nodes.val
                    ELSE <<>>]
            /\ inflight' = [k \in Kinds |-> Some(build_vars(k, first, None))]
            /\ sent' = [c \in Calls |->
                          IF c \in Kinds THEN sent[c] + 1
                          ELSE IF p = "base_wait" THEN sent[c] + 1 ELSE sent[c]]
       ELSE /\ UNCHANGED <<dpc, cursor, all_nodes, inflight>>
            /\ sent' = [sent EXCEPT !["base"] =
                          IF p = "base_wait" THEN @ + 1 ELSE @]

\* fetch_activity moves to position p.  On reaching the join! each future
\* runs to its first await: all_nodes = Vec::new(), cursor = None, and the
\* first request is issued.
Enter(p) ==
    /\ pc' = p
    /\ IF JoinReached(p)
       THEN /\ dpc' = [k \in Kinds |-> "wait"]
            /\ cursor' = [k \in Kinds |-> None]
            /\ all_nodes' = [k \in Kinds |-> <<>>]
            /\ inflight' = [k \in Kinds |-> Some(build_vars(k, first, None))]
            /\ sent' = [c \in Calls |->
                          IF c \in Kinds THEN sent[c] + 1
                          ELSE IF p = "base_wait" THEN sent[c] + 1 ELSE sent[c]]
       ELSE /\ UNCHANGED <<dpc, cursor, all_nodes, inflight>>
            /\ sent' = [sent EXCEPT !["base"] =
                          IF p = "base_wait" THEN @ + 1 ELSE @]

\* fetch_activity is called: the summary request is built and sent.
SendBase ==
    /\ pc = "start"
    /\ base_inflight' = Some(base_variables)
    /\ Enter("base_wait")
    /\ UNCHANGED <<srv_total, srv_quirks, base_data, dres, ret, last_reply,
                   delivered, summary, cli, flt, previous>>

\* The summary round trip ends: fetch_activity returns the error, or keeps
\* the data as base_data and reaches the join!.
RecvBase ==
    /\ pc = "base_wait"
    /\ \E rq \in Replies("base", base_inflight.val) :
         LET out == BaseOutcome(rq.reply) IN
         /\ last_reply' = [last_reply EXCEPT !["base"] = Some(Shape(rq.reply))]
         /\ base_inflight' = None
         /\ IF out.ok
            THEN /\ base_data' = Some(out.val)
                 /\ summary' = Some(out.val)
                 /\ Enter("join")
                 /\ UNCHANGED ret
            ELSE /\ ret' = Some(out)
                 /\ Enter("done")
                 /\ UNCHANGED <<base_data, summary>>
    /\ UNCHANGED <<srv_total, srv_quirks, dres, delivered, cli, flt, previous>>

\* The extract closure of drain k unwraps a null user: the panic unwinds
\* fetch_activity, which drops the futures that are still pending.
Panicked(k) ==
    /\ pc' = "panicked"
    /\ dpc' = [j \in Kinds |-> IF j = k THEN "panicked"
                               ELSE IF dpc[j] = "wait" THEN "dropped"
                               ELSE dpc[j]]
    /\ cursor' = [j \in Kinds |-> None]
    /\ all_nodes' = [j \in Kinds |-> <<>>]
    /\ inflight' = [j \in Kinds |-> None]
    /\ UNCHANGED <<dres, base_data, ret, sent, delivered>>

\* Variant of Continue: the next request is built from the cursor as it was
\* before this reply's endCursor is assigned.
ContinueStale(k, step) ==
    /\ cursor' = [cursor EXCEPT ![k] = step.cursor]
    /\ all_nodes' = [all_nodes EXCEPT ![k] = step.all]
    /\ inflight' = [inflight EXCEPT ![k] =
                      Some(build_vars(k, first, cursor[k]))]
    /\ sent' = [sent EXCEPT ![k] = @ + 1]
    /\ delivered' = [delivered EXCEPT ![k] = Append(@, step.page)]
    /\ UNCHANGED <<pc, dpc, dres, base_data, ret>>

\* Variant of Continue: the three drains read and write one cursor.
ContinueSharedCursor(k, step) ==
    /\ cursor' = [j \in Kinds |-> step.cursor]
    /\ all_nodes' = [all_nodes EXCEPT ![k] = step.all]
    /\ inflight' = [inflight EXCEPT ![k] =
                      Some(build_vars(k, first, step.cursor))]
    /\ sent' = [sent EXCEPT ![k] = @ + 1]
    /\ delivered' = [delivered EXCEPT ![k] = Append(@, step.page)]
    /\ UNCHANGED <<pc, dpc, dres, base_data, ret>>

\* Drain k has a next page: the cursor is set and the next request issued.
Continue(k, step) ==
    /\ cursor' = [cursor EXCEPT ![k] = step.cursor]
    /\ all_nodes' = [all_nodes EXCEPT ![k] = step.all]
    /\ inflight' = [inflight EXCEPT ![k] =
                      Some(build_vars(k, first, step.cursor))]
    /\ sent' = [sent EXCEPT ![k] = @ + 1]
    /\ delivered' = [delivered EXCEPT ![k] = Append(@, step.page)]
    /\ UNCHANGED <<pc, dpc, dres, base_data, ret>>

\* Variant of Finish: a drain whose first request failed sends it once more.
FinishRetry(k, step) ==
    IF step.tag = "err" /\ sent[k] < 2
    THEN /\ sent' = [sent EXCEPT ![k] = @ + 1]
         /\ UNCHANGED <<pc, dpc, dres, cursor, all_nodes, inflight, delivered,
                        base_data, ret>>
    ELSE
    LET ndpc == [dpc EXCEPT ![k] = IF step.res.ok THEN "ok" ELSE "err"]
        ndres == [dres EXCEPT ![k] = step.res]
        joined == \A j \in Kinds : ndpc[j] \in {"ok", "err"}
        jr == JoinResult(ndres)
        merged == Merge(base_data.val, jr.val["issues"], jr.val["prs"],
                        jr.val["pr_reviews"])
    IN /\ dpc' = ndpc
       /\ dres' = ndres
       /\ cursor' = [cursor EXCEPT ![k] = None]
       /\ all_nodes' = [all_nodes EXCEPT ![k] = <<>>]
       /\ inflight' = [inflight EXCEPT ![k] = None]
       /\ delivered' = [delivered EXCEPT ![k] =
                          IF step.tag = "break" THEN Append(@, step.page) ELSE @]
       /\ UNCHANGED sent
       /\ IF ~joined
          THEN UNCHANGED <<pc, base_data, ret>>
          ELSE /\ pc' = "done"
               /\ IF jr.ok
                  THEN /\ base_data' = Some(merged)
                       /\ ret' = Some(Ok(merged))
                  ELSE /\ ret' = Some(jr)
                       /\ UNCHANGED base_data

\* Variant of Finish: try_join! in place of join!.  The first drain that
\* resolves to an error ends the join: fetch_activity returns that error and
\* the drains still pending are dropped.
FinishTryJoin(k, step) ==
    IF ~step.res.ok
    THEN /\ pc' = "done"
         /\ ret' = Some(Context(DrainContext(k), step.res))
         /\ dpc' = [j \in Kinds |-> IF j = k THEN "err"
                                    ELSE IF dpc[j] = "wait" THEN "dropped"
                                    ELSE dpc[j]]
         /\ dres' = [dres EXCEPT ![k] = step.res]
         /\ cursor' = [j \in Kinds |-> None]
         /\ all_nodes' = [j \in Kinds |-> <<>>]
         /\ inflight' = [j \in Kinds |-> None]
         /\ UNCHANGED <<sent, delivered, base_data>>
    ELSE
    LET ndpc == [dpc EXCEPT ![k] = "ok"]
        ndres == [dres EXCEPT ![k] = step.res]
        joined == \A j \in Kinds : ndpc[j] \in {"ok", "err"}
        jr == JoinResult(ndres)
        merged == Merge(base_data.val, jr.val["issues"], jr.val["prs"],
                        jr.val["pr_reviews"])
    IN /\ dpc' = ndpc
       /\ dres' = ndres
       /\ cursor' = [cursor EXCEPT ![k] = None]
       /\ all_nodes' = [all_nodes EXCEPT ![k] = <<>>]
       /\ inflight' = [inflight EXCEPT ![k] = None]
       /\ delivered' = [delivered EXCEPT ![k] = Append(@, step.page)]
       /\ UNCHANGED sent
       /\ IF ~joined
          THEN UNCHANGED <<pc, base_data, ret>>
          ELSE /\ pc' = "done"
               /\ IF jr.ok
                  THEN /\ base_data' = Some(merged)
                       /\ ret' = Some(Ok(merged))
                  ELSE /\ ret' = Some(jr)
                       /\ UNCHANGED base_data

\* Drain k resolves to step.res.  When it is the last of the three, the
\* join! completes and fetch_activity runs to its return.
Finish(k, step) ==
    LET ndpc == [dpc EXCEPT ![k] = IF step.res.ok THEN "ok" ELSE "err"]
        ndres == [dres EXCEPT ![k] = step.res]
        joined == \A j \in Kinds : ndpc[j] \in {"ok", "err"}
        jr == JoinResult(ndres)
        merged == Merge(base_data.val, jr.val["issues"], jr.val["prs"],
                        jr.val["pr_reviews"])
    IN /\ dpc' = ndpc
       /\ dres' = ndres
       /\ cursor' = [cursor EXCEPT ![k] = None]
       /\ all_nodes' = [all_nodes EXCEPT ![k] = <<>>]
       /\ inflight' = [inflight EXCEPT ![k] = None]
       /\ delivered' = [delivered EXCEPT ![k] =
                          IF step.tag = "break" THEN Append(@, step.page) ELSE @]
       /\ UNCHANGED sent
       /\ IF ~joined
          THEN UNCHANGED <<pc, base_data, ret>>
          ELSE /\ pc' = "done"
               /\ IF jr.ok
                  THEN /\ base_data' = Some(merged)
                       /\ ret' = Some(Ok(merged))
                  ELSE /\ ret' = Some(jr)
                       /\ UNCHANGED base_data

\* The round trip of drain k's request in flight ends.
DrainRecv(k) ==
    /\ pc = "join"
    /\ dpc[k] = "wait"
    /\ \E rq \in Replies(k, inflight[k].val) :
         LET step == PageStep(k, all_nodes[k], rq.reply) IN
         /\ srv_quirks' = IF rq.quirky THEN srv_quirks - 1 ELSE srv_quirks
         /\ last_reply' = [last_reply EXCEPT ![k] = Some(Shape(rq.reply))]
         /\ CASE step.tag = "panic" -> Panicked(k)
              [] step.tag = "next" -> Continue(k, step)
              [] OTHER -> Finish(k, step)
    /\ UNCHANGED <<srv_total, base_inflight, summary, cli, flt, previous>>

Next ==
    \/ SendBase
    \/ RecvBase
    \/ \E k \in Kinds : DrainRecv(k)

Spec == Init /\ [][Next]_vars
SpecQuirks == InitQuirks /\ [][Next]_vars

\* fetch_activity on a runtime that polls it whenever it can proceed, with a
\* network on which every request issued gets a reply or a failure.
SpecFair ==
    /\ Init
    /\ [][Next]_vars
    /\ WF_vars(SendBase)
    /\ WF_vars(RecvBase)
    /\ \A k \in Kinds : WF_vars(DrainRecv(k))

\* fetch_activity takes no cancellation signal: the one way to cancel it is
\* to drop its future while it is suspended at an await.  The requests in
\* flight are abandoned, the pending drains are dropped with it, and nothing
\* is returned.
Cancel ==
    /\ pc \in {"base_wait", "join"}
    /\ pc' = "cancelled"
    /\ base_inflight' = None
    /\ dpc' = [k \in Kinds |-> IF dpc[k] = "wait" THEN "dropped" ELSE dpc[k]]
    /\ cursor' = [k \in Kinds |-> None]
    /\ all_nodes' = [k \in Kinds |-> <<>>]
    /\ inflight' = [k \in Kinds |-> None]
    /\ UNCHANGED <<srv_total, srv_quirks, base_data, dres, ret, sent,
                   last_reply, delivered, summary, cli, flt, previous>>

NextCancel == Next \/ Cancel

\* fetch_activity with a caller that may cancel it.
SpecCancel == Init /\ [][NextCancel]_vars

\* ------------------------------------------------------ the argument layer
\* A string is the sequence of its characters.  The characters a --period
\* value is made of here: digits, the three units and one other letter.
Digits == {"0", "1", "2"}
PeriodChars == Digits \cup {"d", "w", "m", "y"}

Strings(chars, n) == UNION {[1..l -> chars] : l \in 1..n}

DigitValue(c) == CASE c = "0" -> 0 [] c = "1" -> 1 [] c = "2" -> 2

\* str::parse::<i64> of a string of digits; the empty string is an error.
RECURSIVE DecimalValue(_)
DecimalValue(ds) ==
    IF ds = <<>> THEN 0
    ELSE 10 * DecimalValue(SubSeq(ds, 1, Len(ds) - 1))
         + DigitValue(ds[Len(ds)])

ParseI64(ds) ==
    IF ds = <<>> THEN Err("Invalid number in period")
    ELSE Ok(DecimalValue(ds))

\* parse_period: the string is split at its first character that is no
\* digit; the Duration is counted in days.
parse_period(arg) ==
    LET nondigit == {i \in 1..Len(arg) : arg[i] \notin Digits}
    IN IF nondigit = {}
       THEN Err("Invalid period format. Use e.g., 1d, 7d, 30d, 2w, 1m")
       ELSE LET at == CHOOSE i \in nondigit : \A j \in nondigit : i <= j
                amount == ParseI64(SubSeq(arg, 1, at - 1))
                unit == SubSeq(arg, at, Len(arg))
            IN IF ~amount.ok THEN amount
               ELSE IF unit = <<"d">> THEN Ok(amount.val)
               ELSE IF unit = <<"w">> THEN Ok(amount.val * 7)
               ELSE IF unit = <<"m">> THEN Ok(amount.val * 30)
               ELSE Err("Invalid period unit")

\* Args::get_date_range, now being the value of Utc::now().
get_date_range(period, from, to, now) ==
    IF period.some /\ ~from.some /\ ~to.some
    THEN LET end == now
             start == end - period.val
         IN Ok(<<start, end>>)
    ELSE IF ~period.some /\ from.some /\ to.some
    THEN IF from.val >= to.val
         THEN Err("Start date must be before end date")
         ELSE Ok(<<from.val, to.val>>)
    ELSE Err("Either specify --period or both --from and --to")

\* A point in time is a number of days; --from and --to arrive parsed.
Days == 0..MaxDay
Opt(S) == {None} \cup {Some(x) : x \in S}

\* A command line: the --period string, --from and --to.
CommandLines ==
    [pc : {"input"}, period_arg : Opt(Strings(PeriodChars, MaxArgLen)),
     from : Opt(Days), to : Opt(Days)]

\* The state before the command line is parsed; fetch_activity is not called.
InitArgs ==
    /\ FetchState(0)
    /\ srv_total = [k \in Kinds |-> 0]
    /\ cli \in CommandLines
    /\ flt = [pc |-> "idle"]
    /\ previous = None

\* clap parses the command line into Args: --period goes through
\* parse_period and conflicts with --from and --to, each of which requires
\* the other.  A command line clap rejects ends the program.
ParseArgs ==
    /\ cli.pc = "input"
    /\ LET period == IF cli.period_arg.some
                     THEN parse_period(cli.period_arg.val)
                     ELSE Ok(0)
           conflict == cli.period_arg.some /\ (cli.from.some \/ cli.to.some)
           lonely == cli.from.some # cli.to.some
       IN cli' = IF ~period.ok \/ conflict \/ lonely
                 THEN [pc |-> "rejected", period_arg |-> cli.period_arg,
                       from |-> cli.from, to |-> cli.to]
                 ELSE [pc |-> "parsed", period_arg |-> cli.period_arg,
                       period |-> IF cli.period_arg.some
                                  THEN Some(period.val) ELSE None,
                       from |-> cli.from, to |-> cli.to]
    /\ UNCHANGED <<fetch_vars, flt, previous>>

\* main calls args.get_date_range().
GetDateRange ==
    /\ cli.pc = "parsed"
    /\ \E now \in Days :
         cli' = [pc |-> "done", period_arg |-> cli.period_arg,
                 period |-> cli.period, from |-> cli.from, to |-> cli.to,
                 range |-> get_date_range(cli.period, cli.from, cli.to, now)]
    /\ UNCHANGED <<fetch_vars, flt, previous>>

NextArgs == ParseArgs \/ GetDateRange

SpecArgs == InitArgs /\ [][NextArgs]_vars

\* ---------------------------------------------------------------- the filter
\* Repository names ("org1/repo1", "org2/repo2", "org1/repo3" of
\* dummy_response_data_for_filtering, and "org12/repo1") and organization
\* names, as sequences of characters.
RepoNames ==
    {<<"o", "1", "/", "r", "1">>, <<"o", "2", "/", "r", "2">>,
     <<"o", "1", "/", "r", "3">>, <<"o", "1", "2", "/", "r", "1">>}
OrgNames == {<<"o", "1">>, <<"o", "2">>, <<"o", "1", "2">>}

\* An entry of commit_contributions_by_repository; an issue node and a pull
\* request node, which carry their repository.
RepoContrib(name, count) ==
    [repository |-> [name_with_owner |-> name],
     contributions |-> [total_count |-> count]]
IssueNode(name) ==
    [issue |-> [number |-> 1, repository |-> [name_with_owner |-> name]]]
PullRequestNode(name) ==
    [pull_request |-> [number |-> 101,
                       repository |-> [name_with_owner |-> name]]]

\* A ResponseData as dummy_response_data_for_filtering builds it, with the
\* given commit entries, issue nodes and pull request nodes.
Activity(commits, issues, prs) ==
    LET conn(nodes) == [total_count |-> 0,
                        page_info |-> [end_cursor |-> None,
                                       has_next_page |-> FALSE],
                        nodes |-> nodes]
    IN [user |-> Some([contributions_collection |->
           [total_commit_contributions |-> 0,
            total_issue_contributions |-> 0,
            total_pull_request_contributions |-> 0,
            total_pull_request_review_contributions |-> 0,
            contribution_calendar |-> [total_contributions |-> 0,
                                       weeks |-> <<>>],
            commit_contributions_by_repository |-> commits,
            issue_contributions |-> conn(issues),
            pull_request_contributions |-> conn(prs),
            pull_request_review_contributions |-> conn(None)]])]

\* The lists of commit entries: at most MaxRepos entries, the i-th with
\* total_count i.
CommitLists ==
    UNION {{[i \in 1..l |-> RepoContrib(names[i], i)] :
              names \in [1..l -> RepoNames]} : l \in 0..MaxRepos}

\* The nodes fields: absent, or one node.
IssueLists == {None} \cup {Some(<<IssueNode(n)>>) : n \in RepoNames}
PullRequestLists ==
    {None} \cup {Some(<<PullRequestNode(n)>>) : n \in RepoNames}

Activities ==
    {[user |-> None]}
    \cup {Activity(c, i, p) :
            c \in CommitLists, i \in IssueLists, p \in PullRequestLists}

\* Variant of OrgPrefix: the organization name without the slash.
OrgPrefixBare(org) == org

\* format!("{}/", org_filter)
OrgPrefix(org) == org \o <<"/">>

\* str::starts_with
StartsWith(s, prefix) ==
    Len(prefix) <= Len(s) /\ SubSeq(s, 1, Len(prefix)) = prefix

\* Vec::retain with the two closures of filter_activity.
RetainRepo(repos, repo_filter) ==
    SelectSeq(repos,
              LAMBDA rc : rc.repository.name_with_owner = repo_filter)
RetainOrg(repos, org_filter) ==
    SelectSeq(repos,
              LAMBDA rc : StartsWith(rc.repository.name_with_owner,
                                     OrgPrefix(org_filter)))

\* filter_activity
filter_activity(activity, repo_filter, org_filter) ==
    IF activity.user.some
    THEN LET cloned == activity.user.val.contributions_collection
                          .commit_contributions_by_repository
             by_repo == IF repo_filter.some
                        THEN RetainRepo(cloned, repo_filter.val)
                        ELSE cloned
             filtered_repos == IF org_filter.some
                               THEN RetainOrg(by_repo, org_filter.val)
                               ELSE by_repo
         IN [activity EXCEPT
               !.user.val.contributions_collection
                   .commit_contributions_by_repository = filtered_repos]
    ELSE activity

\* The state before filter_activity is called; fetch_activity and the
\* argument layer are not looked at.
InitFilter ==
    /\ FetchState(0)
    /\ srv_total = [k \in Kinds |-> 0]
    /\ cli = [pc |-> "idle"]
    /\ flt \in [pc : {"input"}, activity : Activities,
                repo_filter : Opt(RepoNames), org_filter : Opt(OrgNames)]
    /\ previous = None

\* main calls filter_activity(activity, &args.repo, &args.org).
Filter ==
    /\ flt.pc = "input"
    /\ flt' = [pc |-> "done", activity |-> flt.activity,
               repo_filter |-> flt.repo_filter, org_filter |-> flt.org_filter,
               out |-> filter_activity(flt.activity, flt.repo_filter,
                                       flt.org_filter)]
    /\ UNCHANGED <<fetch_vars, cli, previous>>

NextFilter == Filter

SpecFilter == InitFilter /\ [][NextFilter]_vars

\* ------------------------------------------------------- derived notions
\* The node list a page contributes: its nodes, none when the field is absent.
NodesOf(page) == IF page.nodes.some THEN page.nodes.val ELSE <<>>

\* The node lists of a sequence of pages, one after the other.
RECURSIVE Concat(_)
Concat(pages) ==
    IF pages = <<>> THEN <<>>
    ELSE NodesOf(Head(pages)) \o Concat(Tail(pages))

\* All nodes of connection k, in the server's order.
ServerNodes(k) == [i \in 1..srv_total[k] |-> Node(k, i)]

\* The pages drain k accepted are a well-formed chain: nodes present, and
\* an endCursor on every page that reports a next page.
WellFormed(k) ==
    \A i \in 1..Len(delivered[k]) :
        /\ delivered[k][i].nodes.some
        /\ delivered[k][i].page_info.has_next_page
              => delivered[k][i].page_info.end_cursor.some

\* The connection of kind k in a ResponseData whose user is present.
ConnOf(k, data) ==
    LET cc == data.user.val.contributions_collection
    IN CASE k = "issues" -> cc.issue_contributions
         [] k = "prs" -> cc.pull_request_contributions
         [] k = "pr_reviews" -> cc.pull_request_review_contributions

\* A ResponseData without the three node lists.
WithoutNodes(data) ==
    IF data.user.some
    THEN [data EXCEPT
            !.user.val.contributions_collection.issue_contributions.nodes
                = None,
            !.user.val.contributions_collection.pull_request_contributions.nodes
                = None,
            !.user.val.contributions_collection
                .pull_request_review_contributions.nodes = None]
    ELSE data

\* fetch_activity has returned an error / a value.
ReturnedErr == pc = "done" /\ ret.some /\ ~ret.val.ok
ReturnedOk == pc = "done" /\ ret.some /\ ret.val.ok

\* The last reply a call received has this shape.
Got(c, shape) == last_reply[c] = Some(shape)
ErrorsReply == [kind |-> "body", errors |-> "nonempty"]
NullDataReply == [kind |-> "body", errors |-> "null", data |-> "null"]

TotalSent == sent["base"] + sent["issues"] + sent["prs"] + sent["pr_reviews"]

\* ------------------------------------------------------------ the claims

\* C1: a drain that returns over a well-formed chain of K pages returns the
\* concatenation of the K pages' node lists in arrival order: K is the page
\* count of the connection, every page but the last holds first nodes, the
\* result holds (K-1)*first + r nodes (r the size of the last page) and is
\* the server's node list, each node once and in the server's order.
C1_DrainReturnsAllPages ==
    \A k \in Kinds :
        (dpc[k] = "ok" /\ WellFormed(k)) =>
            LET K == Len(delivered[k])
                r == Len(NodesOf(delivered[k][K]))
            IN /\ K = PageCount(k)
               /\ \A i \in 1..(K - 1) :
                     /\ Len(NodesOf(delivered[k][i])) = first
                     /\ delivered[k][i].page_info.has_next_page
               /\ ~delivered[k][K].page_info.has_next_page
               /\ dres[k] = Ok(Concat(delivered[k]))
               /\ Len(dres[k].val) = (K - 1) * first + r
               /\ dres[k].val = ServerNodes(k)

\* C1 witness: a drain has returned the 11 nodes of a two-page connection.
C1_Witness ==
    \E k \in Kinds :
        /\ dpc[k] = "ok"
        /\ Len(delivered[k]) = 2
        /\ Len(dres[k].val) = first + 1

\* C2: a reply with a non-empty errors list makes the call that received it
\* fail: the summary fetch returns an error and no drain runs; a drain
\* resolves to an error that carries no nodes, its accumulator is dropped,
\* and fetch_activity then returns an error, not an aggregate.
C2_ErrorsFailTheCall ==
    /\ Got("base", ErrorsReply) =>
          /\ ReturnedErr
          /\ \A k \in Kinds : dpc[k] = "idle" /\ dres[k] = None
    /\ \A k \in Kinds :
          Got(k, ErrorsReply) =>
              /\ dpc[k] = "err"
              /\ ~dres[k].ok
              /\ DOMAIN dres[k] = {"ok", "err"}
              /\ all_nodes[k] = <<>>
              /\ pc = "done" => ReturnedErr /\ DOMAIN ret.val = {"ok", "err"}

\* C2 witness: a drain that had accumulated the ten nodes of its first page
\* received errors on the second one, and fetch_activity has returned.
C2_Witness ==
    \E k \in Kinds :
        /\ Got(k, ErrorsReply)
        /\ Len(delivered[k]) = 1
        /\ Len(NodesOf(delivered[k][1])) = first
        /\ pc = "done"

\* C3: once a drain has failed, fetch_activity returns no aggregate, not
\* even a partial one (base_data stays the summary reply, unmerged); when it
\* returns, it returns one error, whose outermost context names a connection
\* whose drain failed.
C3_AllOrNothing ==
    (\E k \in Kinds : dpc[k] = "err") =>
        /\ ~ReturnedOk
        /\ base_data = summary
        /\ pc = "done" =>
              /\ ReturnedErr
              /\ \E k \in Kinds :
                    /\ dpc[k] = "err"
                    /\ ret.val = Context(DrainContext(k), dres[k])

\* C3 witness: the review drain failed on its second page while the issue
\* and pull-request drains returned their nodes.
C3_Witness ==
    /\ pc = "done"
    /\ dpc["pr_reviews"] = "err" /\ Len(delivered["pr_reviews"]) = 1
    /\ dpc["issues"] = "ok" /\ Len(dres["issues"].val) = first + 1
    /\ dpc["prs"] = "ok" /\ Len(dres["prs"].val) = 1

\* C4: when fetch_activity returns an aggregate with a user, each of its
\* three node lists is the list the corresponding drain returned; the
\* summary reply's first-page list is replaced by it.
C4_MergedListsAreTheDrained ==
    (ReturnedOk /\ ret.val.val.user.some) =>
        \A k \in Kinds :
            /\ dpc[k] = "ok"
            /\ ConnOf(k, ret.val.val).nodes = Some(dres[k].val)

\* C4 witness: an aggregate is returned in which a drained list of 11 nodes
\* stands where the summary reply had its first page of 10.
C4_Witness ==
    /\ ReturnedOk
    /\ ret.val.val.user.some
    /\ \E k \in Kinds :
          /\ Len(ConnOf(k, summary.val).nodes.val) = first
          /\ Len(ConnOf(k, ret.val.val).nodes.val) = first + 1

\* C5: the aggregate fetch_activity returns equals the accepted summary
\* reply in everything but the three node lists: the counters, the
\* calendar, commitContributionsByRepository and each connection's
\* totalCount and pageInfo.
C5_MergeChangesOnlyNodes ==
    ReturnedOk =>
        /\ summary.some
        /\ WithoutNodes(ret.val.val) = WithoutNodes(summary.val)
        /\ base_data = Some(ret.val.val)

\* C5 witness: an aggregate with the summary's counters is returned after a
\* merge that changed a node list.
C5_Witness ==
    /\ ReturnedOk
    /\ ret.val.val.user.some
    /\ ret.val.val # summary.val
    /\ ret.val.val.user.val.contributions_collection
          .total_commit_contributions = SummaryCommits

\* C6: a successful fetch_activity has issued one summary request and, for
\* each connection, one request per page, the first of them for the first
\* page again (the page the summary reply held): 1 + Ki + Kp + Kr requests
\* for well-formed page chains, at least 4.
C6_RequestCount ==
    ReturnedOk =>
        /\ sent["base"] = 1
        /\ \A k \in Kinds :
              /\ sent[k] = Len(delivered[k])
              /\ WellFormed(k) => sent[k] = PageCount(k)
              /\ (WellFormed(k) /\ summary.val.user.some) =>
                    delivered[k][1].nodes = extract(k, summary.val).nodes
        /\ TotalSent = 1 + Len(delivered["issues"]) + Len(delivered["prs"])
                         + Len(delivered["pr_reviews"])
        /\ TotalSent >= 4

\* C6 witness: a successful invocation over connections of 2, 1 and 2
\* pages that issued 1 + 2 + 1 + 2 = 6 requests.
C6_Witness ==
    /\ ReturnedOk
    /\ PageCount("issues") = 2 /\ PageCount("prs") = 1
    /\ PageCount("pr_reviews") = 2
    /\ TotalSent = 6

\* C7: a drain whose first accepted page reports hasNextPage = false has
\* issued exactly one request and resolved to that page's node list.
C7_SinglePage ==
    \A k \in Kinds :
        (Len(delivered[k]) >= 1
            /\ ~delivered[k][1].page_info.has_next_page) =>
            /\ sent[k] = 1
            /\ Len(delivered[k]) = 1
            /\ dpc[k] = "ok"
            /\ dres[k] = Ok(NodesOf(delivered[k][1]))

\* C7 witness: a drain returned the one node of a single page that carried
\* an endCursor.
C7_Witness ==
    \E k \in Kinds :
        /\ dpc[k] = "ok"
        /\ sent[k] = 1
        /\ delivered[k][1].page_info.end_cursor.some
        /\ dres[k] = Ok(<<Node(k, 1)>>)

\* C8: a reply with data = null and errors = null makes the call that
\* received it fail with the "No data received" error, which is not the
\* error of an errors list; the summary fetch then starts no drain, and
\* fetch_activity returns an error and no aggregate.
C8_NullDataIsIntegrityError ==
    /\ Got("base", NullDataReply) =>
          /\ pc = "done"
          /\ ret = Some(Err(<<Msg("No data received in base response")>>))
          /\ \A k \in Kinds : dpc[k] = "idle" /\ dres[k] = None
    /\ \A k \in Kinds :
          Got(k, NullDataReply) =>
              /\ dpc[k] = "err"
              /\ dres[k] =
                    Err(<<Msg("No data received in pagination response")>>)
              /\ dres[k] # Bail("GraphQL pagination errors", <<>>)
              /\ dres[k] # Bail("GraphQL pagination errors", <<"message">>)
              /\ all_nodes[k] = <<>>
              /\ pc = "done" => ReturnedErr

\* C8 witness: a drain received null data and no errors on its second page
\* and fetch_activity has returned.
C8_Witness ==
    \E k \in Kinds :
        /\ Got(k, NullDataReply)
        /\ Len(delivered[k]) = 1
        /\ pc = "done"

\* The summary request failed: the round trip failed, or the reply had an
\* errors list, or no errors and null data.
SummaryFailed ==
    \/ Got("base", [kind |-> "transport"])
    \/ Got("base", [kind |-> "decode"])
    \/ Got("base", ErrorsReply)
    \/ Got("base", [kind |-> "body", errors |-> "empty"])
    \/ Got("base", NullDataReply)

\* C9: when the summary request fails, fetch_activity returns an error and
\* the summary request is the only request of the invocation: no drain was
\* started.
C9_SummaryFailureStopsAll ==
    SummaryFailed =>
        /\ ReturnedErr
        /\ TotalSent = 1 /\ sent["base"] = 1
        /\ \A k \in Kinds :
              dpc[k] = "idle" /\ inflight[k] = None /\ delivered[k] = <<>>
        /\ base_data = None

\* C9 witness: the summary reply could not be decoded and fetch_activity
\* returned the error.
C9_Witness ==
    /\ Got("base", [kind |-> "decode"])
    /\ ret = Some(Context("Failed to parse base response",
                          ReqwestError("decode")))

\* The summary reply was received and accepted: no errors field, data there.
SummaryAccepted ==
    /\ base_inflight = None
    /\ \/ Got("base", [kind |-> "body", errors |-> "null", data |-> "user"])
       \/ Got("base", [kind |-> "body", errors |-> "null",
                       data |-> "user_null"])
    /\ summary.some

\* C10: a drain has issued a request, or has one in flight, only after the
\* summary reply was received and accepted.
C10_DrainsAfterSummary ==
    \A k \in Kinds :
        (sent[k] > 0 \/ inflight[k].some \/ dpc[k] # "idle")
            => SummaryAccepted

\* C10 witness: two drains have requests in flight at the same time, one of
\* them already its second.
C10_Witness ==
    \E j, k \in Kinds :
        /\ j # k
        /\ inflight[j].some /\ sent[j] = 2
        /\ inflight[k].some /\ sent[k] = 1

\* The number of replies drain k has received: the pages it accepted and the
\* reply it failed or panicked on.
Received(k) ==
    Len(delivered[k]) + (IF dpc[k] \in {"err", "panicked"} THEN 1 ELSE 0)

\* The endCursor of the last reply drain k accepted; absent before the first.
LastEndCursor(k) ==
    IF delivered[k] = <<>> THEN None
    ELSE delivered[k][Len(delivered[k])].page_info.end_cursor

\* C11: within one drain requests are strictly sequential.  A drain never has
\* issued more than one request beyond the replies it received; a request is
\* in flight exactly while the drain waits, and it is then request number
\* (replies received + 1); request n+1 is issued only after reply n was
\* received and read: reply n reported a next page and the request carries
\* the endCursor of reply n.  A drain that has resolved has a reply to every
\* request it issued.
C11_StrictlySequential ==
    \A k \in Kinds :
        /\ sent[k] - Received(k) \in {0, 1}
        /\ inflight[k].some <=> dpc[k] = "wait"
        /\ dpc[k] = "wait" =>
              /\ sent[k] = Received(k) + 1
              /\ AfterOf(k, inflight[k].val) = LastEndCursor(k)
              /\ sent[k] > 1 =>
                    delivered[k][sent[k] - 1].page_info.has_next_page
        /\ dpc[k] \in {"ok", "err", "panicked"} => sent[k] = Received(k)

\* C11 witness: a drain has its second request in flight, carrying the
\* endCursor of the one reply it has received.
C11_Witness ==
    \E k \in Kinds :
        /\ dpc[k] = "wait" /\ sent[k] = 2 /\ Len(delivered[k]) = 1
        /\ AfterOf(k, inflight[k].val) = Some(CursorAt(k, first))

\* The endCursors drain k has received, in order of arrival.
EndCursors(k) ==
    [i \in 1..Len(delivered[k]) |-> delivered[k][i].page_info.end_cursor]

Cursorless(k, i) ==
    /\ delivered[k][i].page_info.has_next_page
    /\ ~delivered[k][i].page_info.end_cursor.some

\* C13: a reply that reports hasNextPage = true with endCursor absent makes
\* the drain fail without issuing any further request: the drain that read
\* such a reply as its i-th has resolved to an error and has sent i requests.
C13_CursorlessPageFailsDrain ==
    \A k \in Kinds :
        \A i \in 1..Len(delivered[k]) :
            Cursorless(k, i) => (dpc[k] = "err" /\ sent[k] = i)

\* The four failure causes, as shapes of a reply.
FailureShapes ==
    {[kind |-> "transport"], [kind |-> "decode"], ErrorsReply, NullDataReply}

\* The last reply call c received was a failure.
Failed(c) == last_reply[c].some /\ last_reply[c].val \in FailureShapes

\* C14, in a state: a drain whose last reply was a failure has resolved to an
\* error, has nothing in flight, and the failed request was its last one; a
\* failed summary request was the only request of the invocation.  No page is
\* requested twice: a drain has sent at most one request beyond the pages it
\* accepted, and the cursors it was given to go on with are pairwise
\* different.  Once any request has failed, fetch_activity does not return a
\* value, and it returns an error when it returns.
C14_FailureIsTerminal ==
    /\ \A k \in Kinds :
          /\ Failed(k) =>
                /\ dpc[k] = "err" /\ ~dres[k].ok
                /\ inflight[k] = None
                /\ sent[k] = Len(delivered[k]) + 1
          /\ sent[k] <= Len(delivered[k]) + 1
          /\ \A i \in 1..Len(delivered[k]) :
                delivered[k][i].page_info.has_next_page =>
                    /\ delivered[k][i].page_info.end_cursor.some
                    /\ \A j \in 1..(i - 1) :
                          delivered[k][j].page_info.end_cursor
                             # delivered[k][i].page_info.end_cursor
    /\ Failed("base") =>
          (ReturnedErr /\ TotalSent = 1 /\ base_inflight = None)
    /\ (\E c \in Calls : Failed(c)) =>
          (~ReturnedOk /\ (pc = "done" => ReturnedErr))

\* C14, in a step: a call that has failed issues no request any more and
\* stays failed.
C14_FailedStaysFailed ==
    /\ \A k \in Kinds :
          dpc[k] = "err" =>
              (dpc'[k] = "err" /\ dres'[k] = dres[k]
               /\ sent'[k] = sent[k] /\ inflight'[k] = None)
    /\ ReturnedErr => (sent' = sent /\ ret' = ret)

\* C14: no retry.  Every failure is terminal for the call in which it
\* occurs: after a request of a drain has failed the drain issues no further
\* request, no page is requested a second time, and one failed request makes
\* the whole fetch_activity fail.
C14_NoRetry == []C14_FailureIsTerminal /\ [][C14_FailedStaysFailed]_vars

\* C14 witness: a drain failed on its second request while the other two
\* returned their lists, and fetch_activity returned the error.
C14_Witness ==
    \E k \in Kinds :
        /\ Got(k, [kind |-> "transport"])
        /\ dpc[k] = "err" /\ sent[k] = 2
        /\ \A j \in Kinds \ {k} : dpc[j] = "ok"
        /\ ReturnedErr

\* The pages of connection k behind the cursor, n at most, as a drain that
\* runs alone is served them: each page is the server's answer to the request
\* that carries the endCursor of the page before.
RECURSIVE SeqPages(_, _, _)
SeqPages(k, after, n) ==
    IF n = 0 THEN <<>>
    ELSE LET c == Conn(k, first, after, FALSE, FALSE)
         IN <<[nodes |-> c.nodes, page_info |-> c.page_info]>>
            \o (IF c.page_info.has_next_page
                THEN SeqPages(k, c.page_info.end_cursor, n - 1)
                ELSE <<>>)

AllPages(k) == SeqPages(k, None, MaxPages)

\* What drain k resolves to when it runs alone: the error of the request that
\* failed, else all nodes of its connection.
AloneResult(k) ==
    IF dpc[k] = "err" THEN dres[k] ELSE Ok(Concat(AllPages(k)))

\* What fetch_activity returns when the three drains run one after the other.
SequentialResult ==
    LET alone == [k \in Kinds |-> AloneResult(k)]
        failing == {k \in Kinds : ~alone[k].ok}
        k1 == IF "issues" \in failing THEN "issues"
              ELSE IF "prs" \in failing THEN "prs" ELSE "pr_reviews"
        s == summary.val
    IN IF failing # {}
       THEN Err(<<Msg(DrainContext(k1))>> \o alone[k1].err)
       ELSE Ok(IF ~s.user.some THEN s
               ELSE [s EXCEPT
                 !.user.val.contributions_collection.issue_contributions.nodes
                     = Some(alone["issues"].val),
                 !.user.val.contributions_collection
                     .pull_request_contributions.nodes
                     = Some(alone["prs"].val),
                 !.user.val.contributions_collection
                     .pull_request_review_contributions.nodes
                     = Some(alone["pr_reviews"].val)])

\* C15: the outcome does not depend on how the three drains interleave.  For
\* a server whose reply is a function of the request, what a drain holds and
\* asks for is at every moment a function of the number of replies it has
\* itself received, whatever the other two have done: the pages it accepted
\* are the first pages of its connection as a drain running alone gets them,
\* its accumulator is their concatenation and its cursor the last endCursor.
\* When fetch_activity returns, it returns what the three drains run one
\* after the other give: the same merged aggregate, or the same failure.
C15_InterleavingIndependent ==
    /\ \A k \in Kinds :
          LET pages == AllPages(k)
              n == Len(delivered[k])
          IN /\ n <= Len(pages)
             /\ delivered[k] = SubSeq(pages, 1, n)
             /\ dpc[k] = "wait" =>
                   /\ all_nodes[k] = Concat(delivered[k])
                   /\ cursor[k] = LastEndCursor(k)
             /\ dpc[k] = "ok" =>
                   (delivered[k] = pages /\ dres[k] = Ok(Concat(pages)))
    /\ (pc = "done" /\ summary.some) =>
          /\ \A k \in Kinds : dpc[k] \in {"ok", "err"}
          /\ ret = Some(SequentialResult)

\* C15 witness: every connection has two pages, the issues drain got both
\* its replies before the reviews drain got its first one, and fetch_activity
\* returned the merged data.
C15_Witness ==
    /\ \A k \in Kinds : srv_total[k] = first + 1 /\ sent[k] = 2
    /\ ReturnedOk
    /\ ret = Some(SequentialResult)

\* The texts that mark an error as one of the summary request.
BaseMarks ==
    {"Failed to send base request", "Failed to parse base response",
     "GraphQL errors in base request", "No data received in base response"}

\* The phases an outermost error text stands for: the summary request, or
\* the drain of one connection kind.
PhasesOf(text) ==
    (IF text \in BaseMarks THEN {"base"} ELSE {})
    \cup {k \in Kinds : text = DrainContext(k)}

\* C16: every error fetch_activity returns identifies the phase that produced
\* it.  Its outermost text stands for exactly one phase; when the summary
\* request failed that phase is the summary request and no drain has run;
\* otherwise it is the connection kind of a drain that failed, whose own
\* error follows in the chain.  No failure is turned into a value: when
\* fetch_activity returns a value, the summary reply and the last reply of
\* every drain were well-formed replies without errors and with data, and no
\* drain resolved to an error.
C16_ErrorsIdentifyPhase ==
    /\ ReturnedErr =>
          LET e == ret.val.err
          IN /\ Len(e) >= 1
             /\ IF ~summary.some
                THEN /\ PhasesOf(e[1].text) = {"base"}
                     /\ \A k \in Kinds : dpc[k] = "idle"
                ELSE \E k \in Kinds :
                        /\ PhasesOf(e[1].text) = {k}
                        /\ dpc[k] = "err"
                        /\ e = <<Msg(DrainContext(k))>> \o dres[k].err
    /\ ReturnedOk =>
          /\ \A k \in Kinds :
                dpc[k] = "ok"
                /\ Got(k, [kind |-> "body", errors |-> "null", data |-> "user"])
          /\ \/ Got("base", [kind |-> "body", errors |-> "null",
                             data |-> "user"])
             \/ Got("base", [kind |-> "body", errors |-> "null",
                             data |-> "user_null"])

\* C16 witness: the issues drain returned its list, the other two failed,
\* and fetch_activity returned the error of the pull request drain marked
\* with its kind.
C16_Witness ==
    /\ dpc = [k \in Kinds |-> IF k = "issues" THEN "ok" ELSE "err"]
    /\ ReturnedErr
    /\ ret.val.err[1].text = "Failed to fetch PR nodes"
    /\ Got("prs", ErrorsReply)

\* The classification of the error a failed call ended with: the text of the
\* error the call itself produced.
Class(c) ==
    IF c = "base" THEN ret.val.err[1].text ELSE dres[c].err[1].text

\* The failure cause an error classification stands for.
CauseOf(text) ==
    CASE text \in {"Failed to send base request",
                   "Failed to send pagination request"} -> "transport"
      [] text \in {"Failed to parse base response",
                   "Failed to parse pagination response"} -> "decode"
      [] text \in {"GraphQL errors in base request",
                   "GraphQL pagination errors"} -> "protocol"
      [] text \in {"No data received in base response",
                   "No data received in pagination response"} -> "integrity"
      [] OTHER -> "unknown"

\* The failure cause a reply of a failure shape is.
CauseOfShape(s) ==
    CASE s = [kind |-> "transport"] -> "transport"
      [] s = [kind |-> "decode"] -> "decode"
      [] s = ErrorsReply -> "protocol"
      [] s = NullDataReply -> "integrity"

\* C17: the four failure causes are pairwise distinguishable in the error
\* outcome, in the summary phase and in the drain phase: the classification
\* of the error a call ended with tells which of a transport failure, an
\* undecodable body, a non-empty errors list and null data without errors
\* the call met, and two calls that met different causes ended with
\* different classifications.
C17_CausesDistinguishable ==
    /\ \A c \in Calls :
          Failed(c) => CauseOf(Class(c)) = CauseOfShape(last_reply[c].val)
    /\ \A j, k \in Kinds :
          (Failed(j) /\ Failed(k) /\ last_reply[j] # last_reply[k])
              => Class(j) # Class(k)

\* C17 witness: the three drains failed for three different causes and ended
\* with three different classifications.
C17_Witness ==
    /\ Got("issues", [kind |-> "transport"])
    /\ Got("prs", [kind |-> "decode"])
    /\ Got("pr_reviews", NullDataReply)
    /\ Cardinality({Class(k) : k \in Kinds}) = 3

\* A well-formed reply whose errors list is present and empty.
EmptyErrorsReply == [kind |-> "body", errors |-> "empty"]

\* C18: only a non-empty errors list is a protocol error.  A call whose reply
\* has a present but empty errors list is treated like one whose reply has no
\* errors field: when the call fails on that reply, it fails for the null
\* data (the integrity error), never for the errors list.
C18_EmptyErrorsAreNoErrors ==
    /\ (Got("base", EmptyErrorsReply) /\ ReturnedErr) =>
          ret.val = DataOrErr(None, "No data received in base response")
    /\ \A k \in Kinds :
          (Got(k, EmptyErrorsReply) /\ dpc[k] = "err") =>
              dres[k] = DataOrErr(None,
                                  "No data received in pagination response")

\* C19: a page whose nodes field is absent contributes zero nodes and is not
\* an error.  The accumulator and the result of a drain are the nodes of the
\* pages it accepted, one after the other, a page without nodes adding
\* nothing; after such a page the drain goes on or stops by the page's
\* pageInfo as after any page: with hasNextPage it has issued the next
\* request, without it the page is the last and the drain has returned.
C19_AbsentNodesContributeNothing ==
    \A k \in Kinds :
        /\ dpc[k] = "wait" => all_nodes[k] = Concat(delivered[k])
        /\ dpc[k] = "ok" => dres[k] = Ok(Concat(delivered[k]))
        /\ \A i \in 1..Len(delivered[k]) :
              ~delivered[k][i].nodes.some =>
                 /\ Concat(SubSeq(delivered[k], 1, i))
                       = Concat(SubSeq(delivered[k], 1, i - 1))
                 /\ IF delivered[k][i].page_info.has_next_page
                    THEN sent[k] >= i + 1
                    ELSE i = Len(delivered[k]) /\ sent[k] = i
                         /\ dpc[k] = "ok"

\* C19 witness: the second and last page of a connection came without nodes;
\* the drain returned the ten nodes of the first page.
C19_Witness ==
    \E k \in Kinds :
        /\ dpc[k] = "ok" /\ Len(delivered[k]) = 2
        /\ delivered[k][1].nodes.some /\ ~delivered[k][2].nodes.some
        /\ dres[k] = Ok([i \in 1..first |-> Node(k, i)])

\* C20: in every request of a drain the two connections the drain does not
\* paginate carry the page size and no cursor; only the drain's own cursor
\* is ever present; the three page sizes are 10 on every request of the
\* invocation, the summary request included.
C20_OtherConnectionsFixed ==
    /\ \A k \in Kinds :
          inflight[k].some =>
              /\ \A j \in Kinds : FirstOf(j, inflight[k].val) = 10
              /\ \A j \in Kinds \ {k} : AfterOf(j, inflight[k].val) = None
    /\ base_inflight.some =>
          \A j \in Kinds :
              /\ FirstOf(j, base_inflight.val) = 10
              /\ AfterOf(j, base_inflight.val) = None

\* C20 witness: a drain's request in flight carries a cursor for its own
\* connection and none for the other two.
C20_Witness ==
    \E k \in Kinds :
        /\ inflight[k].some
        /\ AfterOf(k, inflight[k].val) = Some(CursorAt(k, first))
        /\ \A j \in Kinds \ {k} : AfterOf(j, inflight[k].val) = None

\* C21: an invocation issues exactly one summary request, as its first
\* request, with the page size for the three connections and no cursor.  At
\* most one summary request is ever counted, and one as soon as fetch_activity
\* has started; while it is in flight it is the only request issued so far
\* and carries first and an absent cursor three times; a drain has issued a
\* request only when the summary request is answered.  The counters and the
\* calendar of a returned value are those of the one summary reply, though
\* the pagination replies carry such fields too.
C21_OneSummaryRequestFirst ==
    /\ sent["base"] <= 1
    /\ pc # "start" => sent["base"] = 1
    /\ base_inflight.some =>
          /\ TotalSent = 1
          /\ \A j \in Kinds :
                /\ FirstOf(j, base_inflight.val) = first
                /\ AfterOf(j, base_inflight.val) = None
    /\ \A k \in Kinds :
          sent[k] > 0 => (sent["base"] = 1 /\ base_inflight = None)
    /\ (ReturnedOk /\ summary.val.user.some) =>
          LET got == ret.val.val.user.val.contributions_collection
              base == summary.val.user.val.contributions_collection
          IN /\ got.total_commit_contributions
                   = base.total_commit_contributions
             /\ got.contribution_calendar = base.contribution_calendar

\* C21 witness: fetch_activity returned after seven requests, one of them the
\* summary request, with the counter of the summary reply.
C21_Witness ==
    /\ ReturnedOk
    /\ sent["base"] = 1 /\ TotalSent = 7
    /\ ret.val.val.user.some
    /\ ret.val.val.user.val.contributions_collection
          .total_commit_contributions = SummaryCommits

\* C22: cancellation.  Once fetch_activity is cancelled no drain has a
\* request in flight or issues one, and the call has ended with an error
\* that is none of the errors of the summary request and of the drains (the
\* transport, decode, protocol and integrity errors).
C22_CancelEndsWithCancelledError ==
    pc = "cancelled" =>
        /\ base_inflight = None
        /\ \A k \in Kinds : inflight[k] = None
        /\ ret.some /\ ~ret.val.ok
        /\ PhasesOf(ret.val.err[1].text) = {}

\* C23: every date range the argument layer hands to the core satisfies
\* from < to.  get_date_range returns Ok((start, end)) only with start
\* strictly before end, in the --from/--to mode and for every period
\* parse_period accepts; when the arguments give no such range it returns an
\* error.
C23_RangeIsOrdered ==
    cli.pc = "done" =>
        IF cli.range.ok
        THEN cli.range.val[1] < cli.range.val[2]
        ELSE ~cli.period.some
             /\ ~(cli.from.some /\ cli.to.some /\ cli.from.val < cli.to.val)

\* An entry with this name satisfies the filters the call was given.
Matches(name) ==
    /\ flt.repo_filter.some => name = flt.repo_filter.val
    /\ flt.org_filter.some =>
          /\ Len(name) > Len(flt.org_filter.val)
          /\ \A i \in 1..Len(flt.org_filter.val) :
                name[i] = flt.org_filter.val[i]
          /\ name[Len(flt.org_filter.val) + 1] = "/"

\* The commit entries of a ResponseData whose user is present.
CommitsOf(data) ==
    data.user.val.contributions_collection.commit_contributions_by_repository

\* The sub-sequence of a list made of its entries at the indices in keep.
RECURSIVE SubSequence(_, _)
SubSequence(list, keep) ==
    IF keep = {} THEN <<>>
    ELSE LET last == CHOOSE i \in keep : \A j \in keep : j <= i
         IN Append(SubSequence(list, keep \ {last}), list[last])

\* C24: filter_activity returns, as commit_contributions_by_repository, the
\* sub-sequence of the input list whose entries satisfy every filter given
\* (repo: the name equals it; org: the name starts with the organization and
\* a slash), in the input's order, and changes nothing else.  Without a
\* filter the result is the input; with two filters that no name satisfies
\* together the list is empty; the result is the one of applying the two
\* filters one at a time in either order, and filtering it again gives it
\* again.
C24_FilterIsSubSequence ==
    flt.pc = "done" =>
        LET in == flt.activity
            out == flt.out
            r == flt.repo_filter
            o == flt.org_filter
        IN /\ ~in.user.some => out = in
           /\ in.user.some =>
                 /\ out.user.some
                 /\ CommitsOf(out) =
                       SubSequence(CommitsOf(in),
                           {i \in 1..Len(CommitsOf(in)) :
                               Matches(CommitsOf(in)[i]
                                          .repository.name_with_owner)})
                 /\ out = [in EXCEPT
                             !.user.val.contributions_collection
                                 .commit_contributions_by_repository
                                 = CommitsOf(out)]
                 /\ (r.some /\ o.some /\ ~Matches(r.val))
                       => CommitsOf(out) = <<>>
           /\ (~r.some /\ ~o.some) => out = in
           /\ filter_activity(filter_activity(in, r, None), None, o) = out
           /\ filter_activity(filter_activity(in, None, o), r, None) = out
           /\ filter_activity(out, r, o) = out

\* C24 witness: of two entries the organization filter dropped the first, of
\* an organization whose name only begins like the filter, and kept the
\* second.
C24_Witness ==
    /\ flt.pc = "done"
    /\ flt.org_filter = Some(<<"o", "1">>) /\ ~flt.repo_filter.some
    /\ flt.activity.user.some
    /\ Len(CommitsOf(flt.activity)) = 2
    /\ CommitsOf(flt.activity)[1].repository.name_with_owner
          = <<"o", "1", "2", "/", "r", "1">>
    /\ CommitsOf(flt.out) = <<RepoContrib(<<"o", "1", "/", "r", "3">>, 2)>>

\* The repository names the contributions of a ResponseData carry: those of
\* the commit entries, of the issue nodes and of the pull request nodes.
NamesIn(data) ==
    LET cc == data.user.val.contributions_collection
        issues == IF cc.issue_contributions.nodes.some
                  THEN cc.issue_contributions.nodes.val ELSE <<>>
        prs == IF cc.pull_request_contributions.nodes.some
               THEN cc.pull_request_contributions.nodes.val ELSE <<>>
    IN {CommitsOf(data)[i].repository.name_with_owner :
           i \in 1..Len(CommitsOf(data))}
       \cup {issues[i].issue.repository.name_with_owner :
               i \in 1..Len(issues)}
       \cup {prs[i].pull_request.repository.name_with_owner :
               i \in 1..Len(prs)}

\* C25: with a repo filter or an org filter, only contributions of the
\* matching repository or organization are retained: every contribution in
\* the output of filter_activity that carries a repository name (commit
\* entry, issue node, pull request node) satisfies the filters.
C25_OnlyMatchingContributions ==
    (flt.pc = "done" /\ flt.out.user.some) =>
        \A name \in NamesIn(flt.out) : Matches(name)

\* Every drain has returned or failed, and fetch_activity has returned a
\* result or an error.
Returned ==
    /\ pc = "done" /\ ret.some
    /\ summary.some => \A k \in Kinds : dpc[k] \in {"ok", "err"}

\* C26: termination.  When every request issued gets a reply or a failure
\* and every connection has finitely many pages, every drain eventually
\* returns or fails and fetch_activity eventually returns a result or an
\* error.
C26_EventuallyReturns == <>Returned

\* s is an initial part of t.
IsPrefix(s, t) == Len(s) <= Len(t) /\ SubSeq(t, 1, Len(s)) = s

\* The vector of a running drain is the node lists of the replies it has
\* accepted, in arrival order; a drain that returned Ok returned that.
C27_AccumulatorIsConcat ==
    \A k \in Kinds :
        /\ dpc[k] = "wait" => all_nodes[k] = Concat(delivered[k])
        /\ dpc[k] = "ok" => dres[k].val = Concat(delivered[k])

\* One step of fetch_activity: a drain starts with an empty vector, and a
\* step that leaves it running, or ends it with Ok, keeps the earlier vector
\* as an initial part of the later one.
C27_GrowsByAppending ==
    \A k \in Kinds :
        /\ pc = "base_wait" /\ pc' = "join" => all_nodes'[k] = <<>>
        /\ dpc[k] = "wait" /\ dpc'[k] = "wait"
               => IsPrefix(all_nodes[k], all_nodes'[k])
        /\ dpc[k] = "wait" /\ dpc'[k] = "ok"
               => IsPrefix(all_nodes[k], dres'[k].val)

\* C27: accumulator invariant.  At every point of a drain its vector equals
\* the concatenation, in arrival order, of the node lists of the replies the
\* drain has accepted so far; it starts empty and only grows by appending at
\* the end, each earlier value being an initial part of each later one.
C27_AccumulatorInvariant ==
    []C27_AccumulatorIsConcat /\ [][C27_GrowsByAppending]_vars

\* A drain returned after two accepted pages that both carried nodes, and
\* what it returned is the first page's nodes followed by the second's.
C27_Witness ==
    \E k \in Kinds :
        /\ dpc[k] = "ok"
        /\ Len(delivered[k]) = 2
        /\ NodesOf(delivered[k][1]) # <<>>
        /\ NodesOf(delivered[k][2]) # <<>>
        /\ dres[k].val = NodesOf(delivered[k][1]) \o NodesOf(delivered[k][2])

\* This step is a step of drain k: it issued its next request, or it ended
\* (returned, failed, or panicked).
StepOf(k) ==
    /\ pc = "join"
    /\ dpc[k] = "wait"
    /\ \/ sent'[k] # sent[k]
       \/ dpc'[k] \in {"ok", "err", "panicked"}

\* The merge of fetch_activity: the three drains returned Ok and their lists
\* replace the nodes of the captured summary.
MergeStep ==
    /\ pc = "join" /\ pc' = "done"
    /\ \A k \in Kinds : dpc'[k] = "ok"
    /\ base_data' = Some(Merge(base_data.val, dres'["issues"].val,
                               dres'["prs"].val, dres'["pr_reviews"].val))

\* C28: frame of a drain's step.  A step of one drain (issuing a request,
\* receiving a reply, appending nodes, advancing its cursor, failing) leaves
\* the cursor, the vector and the request in flight of every other drain that
\* is still running, and the result of every drain that has ended, as they
\* were; the summary data fetch_activity captured is changed by no step but
\* the merge after all three drains returned.
C28_DrainStepFrame ==
    [][/\ \A k \in Kinds : StepOf(k) =>
             \A j \in Kinds \ {k} :
                /\ dpc'[j] = "wait" =>
                      /\ cursor'[j] = cursor[j]
                      /\ all_nodes'[j] = all_nodes[j]
                      /\ inflight'[j] = inflight[j]
                      /\ sent'[j] = sent[j]
                      /\ delivered'[j] = delivered[j]
                /\ dres'[j] = dres[j]
       /\ pc = "join" /\ base_data' # base_data => MergeStep
       /\ pc = "join" /\ ~MergeStep => base_data = summary]_vars

\* One drain has ended while another, one accepted page into its chain, still
\* holds its cursor and its nodes, and the captured summary is as received.
C28_Witness ==
    \E k, j \in Kinds :
        /\ k # j
        /\ dpc[k] \in {"ok", "err"}
        /\ dpc[j] = "wait"
        /\ cursor[j].some
        /\ all_nodes[j] = Concat(delivered[j])
        /\ all_nodes[j] # <<>>
        /\ summary.some
        /\ base_data = summary

\* The shape of a reply a drain goes on from: no errors, data with a user.
AcceptedShape == [kind |-> "body", errors |-> "null", data |-> "user"]

\* C29: fetch_activity joins the three drains before it looks at any result.
\* It has returned, a value or an error, only when every drain has ended, by
\* returning its list or by failing on a reply of its own.  The failure of
\* one drain stops no other: while the join is pending every drain that has
\* not ended has its request in flight, no drain is dropped, and a drain that
\* returned has requested every page of its connection, whatever became of
\* the other two.
C29_JoinWaitsForAll ==
    /\ ret.some => pc = "done"
    /\ pc = "done" /\ summary.some =>
          \A k \in Kinds : dpc[k] \in {"ok", "err"}
    /\ pc \in {"join", "done"} => \A k \in Kinds : dpc[k] # "dropped"
    /\ \A k \in Kinds :
          /\ dpc[k] = "wait" => pc = "join" /\ inflight[k].some
          /\ dpc[k] = "ok" =>
                /\ sent[k] = PageCount(k)
                /\ Len(delivered[k]) = PageCount(k)
          /\ dpc[k] = "err" =>
                /\ last_reply[k].some
                /\ last_reply[k].val # AcceptedShape

\* The issue drain failed on its first request, and the two other drains
\* went on to request both pages of their connections before fetch_activity
\* returned the error.
C29_Witness ==
    /\ ReturnedErr
    /\ dpc["issues"] = "err" /\ sent["issues"] = 1
    /\ \A k \in {"prs", "pr_reviews"} :
          /\ dpc[k] = "ok"
          /\ PageCount(k) = 2
          /\ sent[k] = 2

\* The drains that resolved to an error.
FailedDrains == {k \in Kinds : dpc[k] = "err"}

\* The order in which fetch_activity inspects the three results.
Priority == <<"issues", "prs", "pr_reviews">>

\* The first of the drains in S in that order.
FirstByPriority(S) ==
    Priority[CHOOSE i \in 1..3 :
                /\ Priority[i] \in S
                /\ \A j \in 1..(i - 1) : Priority[j] \notin S]

\* The error fetch_activity returns for the failure of drain k.
ErrorOf(k) == <<Msg(DrainContext(k))>> \o dres[k].err

\* In a state: the error returned after the drains ran is the error of the
\* first failed drain in the order issues, prs, pr_reviews.
C30_ByPriority ==
    ReturnedErr /\ summary.some =>
        /\ FailedDrains # {}
        /\ ret.val.err = ErrorOf(FirstByPriority(FailedDrains))

\* In the step that completes the join with the failure of drain k, while
\* another drain had failed before: the error names the earlier failure when
\* that drain comes first in the order, and the failure of this step when k
\* comes first.
C30_NotByTime ==
    \A k \in Kinds :
        StepOf(k) /\ dpc'[k] = "err" /\ pc' = "done" /\ FailedDrains # {} =>
            LET earlier == FirstByPriority(FailedDrains)
                named == FirstByPriority(FailedDrains \cup {k})
            IN /\ named \in {earlier, k}
               /\ ret'.val.err[1].text = DrainContext(named)
               /\ named = k <=>
                     \E i, j \in 1..3 : /\ i < j
                                        /\ Priority[i] = k
                                        /\ Priority[j] = earlier

\* C30: when more than one drain fails, the one error returned is chosen by a
\* fixed priority and not by time: it names the issue connection if the issue
\* drain failed, otherwise the pull-request connection if that drain failed,
\* otherwise the review connection, whichever of the failures came first.
C30_FixedPriority == []C30_ByPriority /\ [][C30_NotByTime]_vars

\* The three drains failed, each for another cause, the issue drain on its
\* second request and the two others on their first; the error returned is
\* the issue drain's.
C30_Witness ==
    /\ ReturnedErr
    /\ FailedDrains = Kinds
    /\ sent["issues"] = 2 /\ sent["prs"] = 1 /\ sent["pr_reviews"] = 1
    /\ Got("issues", [kind |-> "transport"])
    /\ Got("prs", ErrorsReply)
    /\ Got("pr_reviews", NullDataReply)
    /\ ret.val.err = ErrorOf("issues")
    /\ ret.val.err[1].text = "Failed to fetch issue nodes"
    /\ ret.val.err[2].text = "Failed to send pagination request"

\* C31: fetch_activity never terminates abnormally.  Whatever well-formed
\* reply the server sends, a pagination reply with no errors and data whose
\* user is null included, no drain panics and no drain is dropped: a drain
\* that received such a reply has ended with a node list or an error value,
\* and fetch_activity is never unwound by a panic.
C31_NoAbnormalTermination ==
    /\ pc # "panicked"
    /\ \A k \in Kinds :
          /\ dpc[k] \notin {"panicked", "dropped"}
          /\ Got(k, [kind |-> "body", errors |-> "null", data |-> "user_null"])
                => dpc[k] \in {"ok", "err"}

\* The shape of a reply with no errors and data whose user is null.
UserNullShape == [kind |-> "body", errors |-> "null", data |-> "user_null"]

\* C32: a summary reply with no errors and non-null data whose user is null
\* is accepted.  fetch_activity still runs the three drains, each of which
\* has issued its first request; when all three have returned their lists,
\* fetch_activity returns success with the summary data as it was received,
\* user null: the drained lists are in no part of the result.
C32_NullUserSummaryPassesThrough ==
    Got("base", UserNullShape) =>
        /\ summary = Some([user |-> None])
        /\ pc \in {"join", "done", "panicked"}
        /\ \A k \in Kinds : dpc[k] # "idle" /\ sent[k] >= 1
        /\ (\A k \in Kinds : dpc[k] = "ok") =>
              /\ ReturnedOk
              /\ ret.val.val = summary.val
              /\ ret.val.val = [user |-> None]
              /\ base_data = summary
        /\ ReturnedOk => \A k \in Kinds : dpc[k] = "ok"

\* After a summary reply with a null user the three drains returned, one of
\* them a list of 11 nodes from two pages, and fetch_activity returned the
\* summary data with its null user.
C32_Witness ==
    /\ Got("base", UserNullShape)
    /\ ReturnedOk
    /\ ret.val.val = [user |-> None]
    /\ \A k \in Kinds : dpc[k] = "ok"
    /\ \E k \in Kinds : sent[k] = 2 /\ Len(dres[k].val) = first + 1

\* ------------------------------------------------------ a second invocation
\* fetch_activity has returned and is called once more on the same client,
\* which holds the same username and date range: every local of the call
\* that returned is gone.  What that call received and returned is kept as
\* history, to compare with.
CallAgain ==
    /\ pc = "done"
    /\ ret.some
    /\ previous = None
    /\ previous' = Some([ret |-> ret.val, summary |-> summary,
                         delivered |-> delivered, last_reply |-> last_reply])
    /\ pc' = "start"
    /\ base_inflight' = None
    /\ base_data' = None
    /\ dpc' = [k \in Kinds |-> "idle"]
    /\ cursor' = [k \in Kinds |-> None]
    /\ all_nodes' = [k \in Kinds |-> <<>>]
    /\ inflight' = [k \in Kinds |-> None]
    /\ dres' = [k \in Kinds |-> None]
    /\ ret' = None
    /\ sent' = [c \in Calls |-> 0]
    /\ last_reply' = [c \in Calls |-> None]
    /\ delivered' = [k \in Kinds |-> <<>>]
    /\ summary' = None
    /\ UNCHANGED <<srv_total, srv_quirks, cli, flt>>

\* The i-th request of a drain of kind k that accepted the given pages: the
\* first without a cursor, each later one with the endCursor of the page
\* before it.
RequestOf(k, pages, i) ==
    build_vars(k, first,
               IF i = 1 THEN None ELSE pages[i - 1].page_info.end_cursor)

\* The server is in the same state as during the invocation before: a
\* request that invocation made gets the reply it got then.  The summary
\* request is the same in every invocation; a page request is recognised by
\* its variables.  Any other request is answered freely.
Replayed ==
    previous.some =>
        LET e == previous.val IN
        /\ pc = "base_wait" =>
              /\ last_reply'["base"] = e.last_reply["base"]
              /\ summary' = e.summary
        /\ \A k \in Kinds : StepOf(k) =>
              \A i \in 1..(Len(e.delivered[k]) + 1) :
                 (/\ inflight[k].val = RequestOf(k, e.delivered[k], i)
                  /\ \/ i <= Len(e.delivered[k])
                     \/ e.last_reply[k] # Some(AcceptedShape))
                 => IF i <= Len(e.delivered[k])
                    THEN /\ last_reply'[k] = Some(AcceptedShape)
                         /\ delivered'[k] =
                               Append(delivered[k], e.delivered[k][i])
                    ELSE /\ last_reply'[k] = e.last_reply[k]
                         /\ delivered'[k] = delivered[k]

NextTwice ==
    \/ CallAgain
    \/ Next /\ Replayed

\* The first of two invocations is called; at most one connection of the
\* user has nodes.
InitTwice ==
    /\ InitWith(0)
    /\ Cardinality({k \in Kinds : srv_total[k] # 0}) <= 1

\* Two invocations of fetch_activity, one after the other, against a server
\* that does not change in between.
SpecTwice == InitTwice /\ [][NextTwice]_vars

\* C33: fetch_activity keeps no state between invocations.  In a second
\* invocation each drain starts with an absent cursor and an empty vector,
\* its first request carrying no cursor; the aggregate is built from the
\* pages this invocation accepted and from nothing else; and with the server
\* answering as it did the first time, the second invocation returns what
\* the first returned, value or error.
C33_NoStateBetweenInvocations ==
    previous.some =>
        /\ pc = "start" =>
              /\ base_data = None
              /\ \A k \in Kinds : cursor[k] = None /\ all_nodes[k] = <<>>
        /\ \A k \in Kinds :
              dpc[k] = "wait" /\ delivered[k] = <<>> =>
                 /\ cursor[k] = None
                 /\ all_nodes[k] = <<>>
                 /\ inflight[k] = Some(build_vars(k, first, None))
        /\ ReturnedOk /\ ret.val.val.user.some =>
              \A k \in Kinds :
                 ConnOf(k, ret.val.val).nodes = Some(Concat(delivered[k]))
        /\ pc = "done" /\ ret.some => ret.val = previous.val.ret
        /\ pc # "panicked"

\* A second invocation returned the aggregate the first had returned, with a
\* list of 11 nodes drained over two pages in each invocation.
C33_Witness ==
    /\ previous.some
    /\ ReturnedOk
    /\ ret.val = previous.val.ret
    /\ ret.val.val.user.some
    /\ \E k \in Kinds :
          /\ sent[k] = 2
          /\ Len(previous.val.delivered[k]) = 2
          /\ Len(ConnOf(k, ret.val.val).nodes.val) = first + 1
====
